---- MODULE Spec2Model ----
(***************************************************************************)
(* pymltools.tf_utils: MaskedAdamOptimizer._apply_sparse_shared            *)
(* (tf_optimizer.py) and the estimator model functions built by            *)
(* tf_triplet_loss_model_fn / tf_softmax_model_fn (tf_model_fn.py).        *)
(*                                                                         *)
(* Tensors are vectors of one scalar per row.  Floating point numbers are  *)
(* fixed-point integers in units of 1/ONE; every product and quotient is   *)
(* rounded toward zero, which is sign-symmetric like IEEE rounding.        *)
(***************************************************************************)
EXTENDS Integers, Sequences, FiniteSets, TLC

\* ------------------------------------------------------------------ bounds
NumRows == 2          \* rows of var and of its slots m, v
MaxIdx == 2           \* longest indices / grad of a sparse gradient
ONE == 8              \* fixed-point unit: the number x is stored as x * ONE
MaxT == 2             \* beta powers are beta^1 .. beta^MaxT
NumUpdateOps == 2     \* update ops the network may add to UPDATE_OPS

Rows == 1..NumRows
GradVals == {-8, 16}
SlotVals == {<<0, 0>>, <<-4, 2>>, <<8, 8>>}    \* <<m[i], v[i]>>, v >= 0
VarVals == {8}
Beta1Vals == {5, 6}
Beta2Vals == {7}
LrVals == {4, 8}
EpsilonVals == {1}

\* ------------------------------------------------------- numeric operators
Abs(x) == IF x >= 0 THEN x ELSE -x

Quot(a, b) == IF (a >= 0) = (b > 0) THEN Abs(a) \div Abs(b) ELSE -(Abs(a) \div Abs(b))

Mul(x, y) == Quot(x * y, ONE)

Div(x, y) == Quot(x * ONE, y)

Sqrt(x) == CHOOSE r \in 0..(x * ONE + 1) : r * r <= x * ONE /\ (r + 1) * (r + 1) > x * ONE

RECURSIVE Pow(_, _)
Pow(b, n) == IF n = 1 THEN b ELSE Mul(Pow(b, n - 1), b)

\* scatter_add(ref, indices, updates): ref[indices[k]] += updates[k], every k
RECURSIVE scatter_add(_, _, _)
scatter_add(ref, idx, upd) ==
    IF idx = <<>> THEN ref
    ELSE scatter_add([ref EXCEPT ![Head(idx)] = @ + Head(upd)], Tail(idx), Tail(upd))

gather(t, idx) == [k \in 1..Len(idx) |-> t[idx[k]]]

\* ---------------------------------------------------------------- state
VARIABLES
    var, m, v,                  \* the variable and its Adam slots
    beta1_power, beta2_power,   \* the beta accumulators
    hyper,                      \* lr_t, beta1_t, beta2_t, epsilon_t
    grad, indices,              \* arguments of the running step
    done,                       \* ops of the step's graph that have run
    m_decay, v_decay,           \* outputs of the ops m * beta1_t, v * beta2_t
    gather_m_t, gather_v_t,     \* outputs of the two gather ops
    var_in, m_in, v_in          \* var, m, v when the step started

adamVars == <<var, m, v, beta1_power, beta2_power, hyper, grad, indices, done,
              m_decay, v_decay, gather_m_t, gather_v_t, var_in, m_in, v_in>>

VARIABLES
    builder,                    \* which factory made model_func
    captured,                   \* the factory arguments model_func closes over
    call,                       \* features, labels, mode, params of the call
    pc,                         \* position of the call in model_func
    trace,                      \* what the call has done so far, in order
    network_calls,              \* the arguments of every network(...) call
    embeddings,                 \* the local embeddings of the triplet model_func
    embedding_mean_norm,        \* what embedding_mean_norm was reduced from
    loss, eval_metric_ops,      \* locals of model_func
    optimizer,                  \* the optimizer constructed
    UPDATE_OPS,                 \* the graph collection tf.GraphKeys.UPDATE_OPS
    spec,                       \* the EstimatorSpec returned
    ran                         \* ops executed by a training step, in order

fnVars == <<builder, captured, call, pc, trace, network_calls, embeddings,
            embedding_mean_norm, loss, eval_metric_ops, optimizer, UPDATE_OPS, spec, ran>>

vars == <<adamVars, fnVars>>

OpNames == {"call", "mul_m", "assign_m", "scatter_m", "mul_v", "assign_v", "scatter_v",
            "gather_m", "gather_v", "var_update", "group"}

\* lr = lr_t * sqrt(1 - beta2_power) / (1 - beta1_power)
lr == Div(Mul(hyper.lr_t, Sqrt(ONE - beta2_power)), ONE - beta1_power)

\* (changed) the gradient is scaled by beta1_t instead of 1 - beta1_t
m_scaled_g_values_beta == [k \in 1..Len(grad) |-> Mul(grad[k], hyper.beta1_t)]

m_scaled_g_values == [k \in 1..Len(grad) |-> Mul(grad[k], ONE - hyper.beta1_t)]

v_scaled_g_values == [k \in 1..Len(grad) |-> Mul(Mul(grad[k], grad[k]), ONE - hyper.beta2_t)]

\* (changed) the scatter-adds are created outside ops.control_dependencies
Deps_no_control(op) ==
    CASE op = "mul_m" -> {"call"}
      [] op = "assign_m" -> {"mul_m"}
      [] op = "scatter_m" -> {"call"}
      [] op = "mul_v" -> {"call"}
      [] op = "assign_v" -> {"mul_v"}
      [] op = "scatter_v" -> {"call"}
      [] op = "gather_m" -> {"scatter_m"}
      [] op = "gather_v" -> {"scatter_v"}
      [] op = "var_update" -> {"gather_m", "gather_v"}
      [] op = "group" -> {"var_update", "scatter_m", "scatter_v", "assign_m", "assign_v"}
      [] OTHER -> {}

\* The ops an op waits for: its data inputs and its control inputs.
Deps(op) ==
    CASE op = "mul_m" -> {"call"}
      [] op = "assign_m" -> {"mul_m"}
      [] op = "scatter_m" -> {"call", "assign_m"}
      [] op = "mul_v" -> {"call"}
      [] op = "assign_v" -> {"mul_v"}
      [] op = "scatter_v" -> {"call", "assign_v"}
      [] op = "gather_m" -> {"scatter_m"}
      [] op = "gather_v" -> {"scatter_v"}
      [] op = "var_update" -> {"gather_m", "gather_v"}
      [] op = "group" -> {"var_update", "scatter_m", "scatter_v"}
      [] OTHER -> {}

Ready(op) == "call" \in done /\ op \notin done /\ Deps(op) \subseteq done

\* no model_func is built: the state of the model-function part while only the
\* optimizer runs
FnIdle ==
    /\ builder = "none"
    /\ captured = <<>>
    /\ call = <<>>
    /\ pc = "idle"
    /\ trace = <<>>
    /\ network_calls = <<>>
    /\ embeddings = <<>>
    /\ embedding_mean_norm = <<>>
    /\ loss = <<>>
    /\ eval_metric_ops = <<>>
    /\ optimizer = "None"
    /\ UPDATE_OPS = {}
    /\ spec = <<>>
    /\ ran = <<>>

\* no sparse step is applied: the state of the optimizer part while only a
\* model_func runs
AdamIdle ==
    /\ var = [i \in Rows |-> 0]
    /\ m = [i \in Rows |-> 0]
    /\ v = [i \in Rows |-> 0]
    /\ beta1_power = 0
    /\ beta2_power = 0
    /\ hyper = <<>>
    /\ grad = <<>>
    /\ indices = <<>>
    /\ done = {}
    /\ m_decay = m
    /\ v_decay = v
    /\ gather_m_t = <<>>
    /\ gather_v_t = <<>>
    /\ var_in = var
    /\ m_in = m
    /\ v_in = v

AdamInit ==
    /\ \E s \in [Rows -> SlotVals] :
          /\ m = [i \in Rows |-> s[i][1]]
          /\ v = [i \in Rows |-> s[i][2]]
    /\ var \in [Rows -> VarVals]
    /\ \E b1 \in Beta1Vals, b2 \in Beta2Vals, l \in LrVals, e \in EpsilonVals, t \in 1..MaxT :
          /\ hyper = [lr_t |-> l, beta1_t |-> b1, beta2_t |-> b2, epsilon_t |-> e]
          /\ beta1_power = Pow(b1, t)
          /\ beta2_power = Pow(b2, t)
    /\ grad = <<>>
    /\ indices = <<>>
    /\ done = {}
    /\ m_decay = m
    /\ v_decay = v
    /\ gather_m_t = <<>>
    /\ gather_v_t = <<>>
    /\ var_in = var
    /\ m_in = m
    /\ v_in = v
    /\ FnIdle

\* _apply_sparse_shared(grad, var, indices, scatter_add) is entered
apply_sparse_shared ==
    /\ done = {}
    /\ \E n \in 1..MaxIdx :
          /\ indices' \in [1..n -> Rows]
          /\ grad' \in [1..n -> GradVals]
    /\ done' = {"call"}
    /\ UNCHANGED <<fnVars, var, m, v, beta1_power, beta2_power, hyper, m_decay, v_decay,
                   gather_m_t, gather_v_t, var_in, m_in, v_in>>

\* m * beta1_t
MulM ==
    /\ Ready("mul_m")
    /\ m_decay' = [i \in Rows |-> Mul(m[i], hyper.beta1_t)]
    /\ done' = done \cup {"mul_m"}
    /\ UNCHANGED <<fnVars, var, m, v, beta1_power, beta2_power, hyper, grad, indices, v_decay,
                   gather_m_t, gather_v_t, var_in, m_in, v_in>>

\* m_t = state_ops.assign(m, m * beta1_t)
AssignM ==
    /\ Ready("assign_m")
    /\ m' = m_decay
    /\ done' = done \cup {"assign_m"}
    /\ UNCHANGED <<fnVars, var, v, beta1_power, beta2_power, hyper, grad, indices, m_decay, v_decay,
                   gather_m_t, gather_v_t, var_in, m_in, v_in>>

\* m_t = scatter_add(m, indices, m_scaled_g_values)
ScatterM ==
    /\ Ready("scatter_m")
    /\ m' = scatter_add(m, indices, m_scaled_g_values)
    /\ done' = done \cup {"scatter_m"}
    /\ UNCHANGED <<fnVars, var, v, beta1_power, beta2_power, hyper, grad, indices, m_decay, v_decay,
                   gather_m_t, gather_v_t, var_in, m_in, v_in>>

\* v * beta2_t
MulV ==
    /\ Ready("mul_v")
    /\ v_decay' = [i \in Rows |-> Mul(v[i], hyper.beta2_t)]
    /\ done' = done \cup {"mul_v"}
    /\ UNCHANGED <<fnVars, var, m, v, beta1_power, beta2_power, hyper, grad, indices, m_decay,
                   gather_m_t, gather_v_t, var_in, m_in, v_in>>

\* v_t = state_ops.assign(v, v * beta2_t)
AssignV ==
    /\ Ready("assign_v")
    /\ v' = v_decay
    /\ done' = done \cup {"assign_v"}
    /\ UNCHANGED <<fnVars, var, m, beta1_power, beta2_power, hyper, grad, indices, m_decay, v_decay,
                   gather_m_t, gather_v_t, var_in, m_in, v_in>>

\* v_t = scatter_add(v, indices, v_scaled_g_values)
ScatterV ==
    /\ Ready("scatter_v")
    /\ v' = scatter_add(v, indices, v_scaled_g_values)
    /\ done' = done \cup {"scatter_v"}
    /\ UNCHANGED <<fnVars, var, m, beta1_power, beta2_power, hyper, grad, indices, m_decay, v_decay,
                   gather_m_t, gather_v_t, var_in, m_in, v_in>>

\* gather_m_t = array_ops.gather(m_t, indices)
GatherM ==
    /\ Ready("gather_m")
    /\ gather_m_t' = gather(m, indices)
    /\ done' = done \cup {"gather_m"}
    /\ UNCHANGED <<fnVars, var, m, v, beta1_power, beta2_power, hyper, grad, indices, m_decay, v_decay,
                   gather_v_t, var_in, m_in, v_in>>

\* gather_v_t = array_ops.gather(v_t, indices)
GatherV ==
    /\ Ready("gather_v")
    /\ gather_v_t' = gather(v, indices)
    /\ done' = done \cup {"gather_v"}
    /\ UNCHANGED <<fnVars, var, m, v, beta1_power, beta2_power, hyper, grad, indices, m_decay, v_decay,
                   gather_m_t, var_in, m_in, v_in>>

\* -lr * gather_m_t / (gather_v_sqrt + epsilon_t), one entry per entry of indices
var_delta(gm, gv) ==
    [k \in 1..Len(gm) |-> Div(Mul(-lr, gm[k]), Sqrt(gv[k]) + hyper.epsilon_t)]

\* (changed) the step is taken on every row, as adam.AdamOptimizer's assign_sub does
var_updated_dense(x, idx, gm, gv) ==
    [i \in Rows |-> x[i] - Div(Mul(lr, m[i]), Sqrt(v[i]) + hyper.epsilon_t)]

\* the rows of var that the update writes, and what it writes
var_updated(x, idx, gm, gv) == scatter_add(x, idx, var_delta(gm, gv))

\* var_update = scatter_add(var, indices, -lr * gather_m_t / (gather_v_sqrt + epsilon_t))
VarUpdate ==
    /\ Ready("var_update")
    /\ var' = var_updated(var, indices, gather_m_t, gather_v_t)
    /\ done' = done \cup {"var_update"}
    /\ UNCHANGED <<fnVars, m, v, beta1_power, beta2_power, hyper, grad, indices, m_decay, v_decay,
                   gather_m_t, gather_v_t, var_in, m_in, v_in>>

\* control_flow_ops.group(var_update, m_t, v_t) has run: the step is over
Group ==
    /\ Ready("group")
    /\ done' = done \cup {"group"}
    /\ UNCHANGED <<fnVars, var, m, v, beta1_power, beta2_power, hyper, grad, indices, m_decay, v_decay,
                   gather_m_t, gather_v_t, var_in, m_in, v_in>>

AdamNext ==
    \/ apply_sparse_shared
    \/ MulM
    \/ AssignM
    \/ ScatterM
    \/ MulV
    \/ AssignV
    \/ ScatterV
    \/ GatherM
    \/ GatherV
    \/ VarUpdate
    \/ Group

SpecAdam == AdamInit /\ [][AdamNext]_vars

\* ------------------------------------------------ properties of the Adam step
StepDone == "group" \in done

InIndices(i) == \E k \in 1..Len(indices) : indices[k] = i

NoDuplicates == \A j, k \in 1..Len(indices) : j # k => indices[j] # indices[k]

\* the sum of vals[k] over the positions k <= n of indices that name row i
RECURSIVE SumAt(_, _, _)
SumAt(i, vals, n) ==
    IF n = 0 THEN 0
    ELSE SumAt(i, vals, n - 1) + (IF indices[n] = i THEN vals[n] ELSE 0)

\* the gradient of row i when indices names it once
GradOf(i) == grad[CHOOSE k \in 1..Len(indices) : indices[k] = i]

\* one Adam step on row i from the updated moments
AdamStep(i) == Div(Mul(lr, m[i]), Sqrt(v[i]) + hyper.epsilon_t)

\* the m and v slots after the sparse update of adam.AdamOptimizer: the decayed
\* slot plus the scaled gradient on the rows of indices
RefAdamM(i) == Mul(m_in[i], hyper.beta1_t)
               + (IF InIndices(i) THEN Mul(GradOf(i), ONE - hyper.beta1_t) ELSE 0)

RefAdamV(i) == Mul(v_in[i], hyper.beta2_t)
               + (IF InIndices(i) THEN Mul(Mul(GradOf(i), GradOf(i)), ONE - hyper.beta2_t) ELSE 0)

\* C4: with indices free of duplicates, after the step every row i of indices has
\* m[i] = beta1*m[i] + (1-beta1)*g[i], v[i] = beta2*v[i] + (1-beta2)*g[i]*g[i] and
\* var[i] = var[i] - lr*m_new[i]/(sqrt(v_new[i]) + epsilon), and m and v equal the
\* slots of the reference Adam sparse update on all rows.
C4_AdamMathOnIndexedRows ==
    (StepDone /\ NoDuplicates) =>
        /\ \A i \in Rows : InIndices(i) =>
              /\ m[i] = Mul(m_in[i], hyper.beta1_t) + Mul(GradOf(i), ONE - hyper.beta1_t)
              /\ v[i] = Mul(v_in[i], hyper.beta2_t)
                        + Mul(Mul(GradOf(i), GradOf(i)), ONE - hyper.beta2_t)
              /\ var[i] = var_in[i] - AdamStep(i)
        /\ \A i \in Rows : m[i] = RefAdamM(i) /\ v[i] = RefAdamV(i)

C4_Witness ==
    /\ StepDone
    /\ NoDuplicates
    /\ Len(indices) = 2
    /\ \E i \in Rows : InIndices(i) /\ m_in[i] # 0 /\ v_in[i] # 0 /\ var[i] # var_in[i]

\* C5: after the step every row of var outside indices is unchanged, the m and v
\* slots of those rows are decayed to beta1*m and beta2*v, and no op of the step
\* modifies beta1_power or beta2_power.
C5_MaskedRows ==
    /\ [](StepDone => \A i \in Rows : ~InIndices(i) =>
              /\ var[i] = var_in[i]
              /\ m[i] = Mul(m_in[i], hyper.beta1_t)
              /\ v[i] = Mul(v_in[i], hyper.beta2_t))
    /\ [][beta1_power' = beta1_power /\ beta2_power' = beta2_power]_vars

C5_Witness ==
    /\ StepDone
    /\ \E i, j \in Rows :
          /\ ~InIndices(i)
          /\ m_in[i] # 0 /\ m[i] # m_in[i] /\ v[i] # v_in[i]
          /\ AdamStep(i) # 0
          /\ InIndices(j) /\ var[j] # var_in[j]

\* what the slot would be if the decay ran after the scatter-add
WrongOrderM == [i \in Rows |->
                  Mul(scatter_add(m_in, indices, m_scaled_g_values)[i], hyper.beta1_t)]

\* C6: in each slot the decay assignment completes before the scatter-add, the
\* gathers for the variable update read m and v after their scatter-adds, so the
\* scaled gradient is never decayed (m ends as the decayed slot plus the scaled
\* gradient, which differs from WrongOrderM wherever the order matters) and the
\* variable update uses the updated moments; the group is over only when the var,
\* m and v updates are.
C6_OpOrder ==
    /\ ("scatter_m" \in done => "assign_m" \in done)
    /\ ("scatter_v" \in done => "assign_v" \in done)
    /\ ("gather_m" \in done => "scatter_m" \in done)
    /\ ("gather_v" \in done => "scatter_v" \in done)
    /\ ("var_update" \in done => {"gather_m", "gather_v"} \subseteq done)
    /\ (StepDone => {"var_update", "scatter_m", "scatter_v"} \subseteq done)
    /\ StepDone =>
          /\ m = scatter_add([i \in Rows |-> Mul(m_in[i], hyper.beta1_t)],
                             indices, m_scaled_g_values)
          /\ v = scatter_add([i \in Rows |-> Mul(v_in[i], hyper.beta2_t)],
                             indices, v_scaled_g_values)
          /\ gather_m_t = gather(m, indices)
          /\ gather_v_t = gather(v, indices)

C6_Witness ==
    /\ StepDone
    /\ \E i \in Rows : InIndices(i) /\ m_in[i] # 0 /\ m[i] # WrongOrderM[i]
    /\ gather_m_t # gather(m_in, indices)

\* C10: every row named in indices receives exactly one Adam step per call, also
\* when the row occurs more than once in indices: the gradients of its occurrences
\* are summed into m and v and the step on var is taken once.
C10_OneStepPerRow ==
    StepDone => \A i \in Rows : InIndices(i) =>
        /\ m[i] = Mul(m_in[i], hyper.beta1_t) + SumAt(i, m_scaled_g_values, Len(indices))
        /\ v[i] = Mul(v_in[i], hyper.beta2_t) + SumAt(i, v_scaled_g_values, Len(indices))
        /\ var[i] = var_in[i] - AdamStep(i)

\* ------------------------------------------------------ the model functions
TRAIN == "train"
EVAL == "eval"
PREDICT == "infer"
ModeVals == {TRAIN, EVAL, PREDICT, "other"}
OptimizerTypes == {"sgd", "adam", "other"}
ScopeNames == {"scope_a", "scope_b"}
EmbeddingKeys == {"embedding", "feature"}
FilenameKeys == {"filename"}
FeaturesVals == {"features_a", "features_b"}
ParamsVals == {"params_a", "params_b"}
LabelsVals == {"labels"}
UpdateOps == {<<"update_op", n>> : n \in 1..NumUpdateOps}

Range(seq) == {seq[k] : k \in 1..Len(seq)}

\* (changed) the network is in training mode whenever the call is not a prediction
IsTraining_not_predict(mode) == mode # PREDICT

\* is_training of the network call
IsTraining(mode) == mode = TRAIN

NetworkArgs ==
    [scope_name |-> captured.scope_name, features |-> call.features,
     params |-> call.params, is_training |-> IsTraining(call.mode)]

\* features[key]
FeaturesAt(key) == <<call.features, key>>

\* (changed) the normalization is applied whatever use_l2_normalize says
l2_normalize_always(emb) == Append(emb, "l2_normalize")

\* if use_l2_normalize: embeddings = tf.nn.l2_normalize(embeddings, axis=0)
l2_normalize_if(emb) ==
    IF captured.use_l2_normalize THEN Append(emb, "l2_normalize") ELSE emb

\* (changed) the embedding is stored under a fixed key
TripletPredictions_fixed_key ==
    [k \in {"embeddings", captured.features_filename_key} |->
        IF k = captured.features_filename_key
        THEN FeaturesAt(captured.features_filename_key) ELSE embeddings]

\* the dict literal {features_embedding_key: ..., features_filename_key: ...}:
\* of two equal keys the later one stays
TripletPredictions ==
    [k \in {captured.features_embedding_key, captured.features_filename_key} |->
        IF k = captured.features_filename_key
        THEN FeaturesAt(captured.features_filename_key) ELSE embeddings]

SoftmaxPredictions ==
    [k \in {"class", "prob", "filename"} |->
        CASE k = "class" -> <<"logits", "argmax">>
          [] k = "prob" -> <<"logits", "softmax">>
          [] k = "filename" -> FeaturesAt(captured.features_filename_key)]

\* tf.estimator.EstimatorSpec(mode, predictions, loss, train_op, eval_metric_ops):
\* an argument left out is <<>>, one given is <<value>>
EstimatorSpec(mode, predictions, loss_, train_op, metrics) ==
    [mode |-> mode, predictions |-> predictions, loss |-> loss_, train_op |-> train_op,
     eval_metric_ops |-> metrics]

\* (changed) adam is chosen only for OptimizerType.adam
OptimizerFor_adam_only(optimizer_type) ==
    IF optimizer_type = "adam" THEN "AdamOptimizer" ELSE "GradientDescentOptimizer"

\* if optimizer_type == OptimizerType.sgd: GradientDescentOptimizer else: AdamOptimizer
OptimizerFor(optimizer_type) ==
    IF optimizer_type = "sgd" THEN "GradientDescentOptimizer" ELSE "AdamOptimizer"

\* (changed) minimize is called outside tf.control_dependencies
ControlInputs_none(collection) == {}

\* with tf.control_dependencies(tf.get_collection(tf.GraphKeys.UPDATE_OPS)):
ControlInputs(collection) == collection

\* optimizer.minimize(loss, global_step=...) created under the control inputs
Minimize == [optimizer |-> optimizer, loss |-> loss,
             control_inputs |-> ControlInputs(UPDATE_OPS)]

\* (changed) the evaluation spec also carries a train_op
EvalSpec_with_train_op(mode, loss_, metrics) ==
    EstimatorSpec(mode, <<>>, loss_, <<Minimize>>, <<metrics>>)

\* tf.estimator.EstimatorSpec(mode, loss=loss, eval_metric_ops=eval_metric_ops)
EvalSpec(mode, loss_, metrics) == EstimatorSpec(mode, <<>>, loss_, <<>>, <<metrics>>)

\* (changed) the prediction spec also carries the loss local
PredictSpec_with_loss(mode, predictions) ==
    EstimatorSpec(mode, <<predictions>>, <<"loss">>, <<>>, <<>>)

\* tf.estimator.EstimatorSpec(mode, predictions=predictions)
PredictSpec(mode, predictions) == EstimatorSpec(mode, <<predictions>>, <<>>, <<>>, <<>>)

\* tf_triplet_loss_model_fn(...) or tf_softmax_model_fn(...) has returned model_func
FnInit ==
    /\ builder \in {"triplet", "softmax"}
    /\ \E sn \in ScopeNames, ek \in EmbeddingKeys, fk \in FilenameKeys,
          ot \in OptimizerTypes, l2 \in BOOLEAN :
          /\ builder = "softmax" => (ek = "embedding" /\ l2 = FALSE)
          /\ captured = [scope_name |-> sn, features_embedding_key |-> ek,
                         features_filename_key |-> fk, optimizer_type |-> ot,
                         use_l2_normalize |-> l2]
    /\ call = <<>>
    /\ pc = "created"
    /\ trace = <<>>
    /\ network_calls = <<>>
    /\ embeddings = <<>>
    /\ embedding_mean_norm = <<>>
    /\ loss = <<>>
    /\ eval_metric_ops = <<>>
    /\ optimizer = "None"
    /\ UPDATE_OPS = {}
    /\ spec = <<>>
    /\ ran = <<>>
    /\ AdamIdle

\* model_func(features, labels, mode, params) is called
ModelFuncCall ==
    /\ pc = "created"
    /\ \E f \in FeaturesVals, l \in LabelsVals, md \in ModeVals, p \in ParamsVals :
          call' = [features |-> f, labels |-> l, mode |-> md, params |-> p]
    /\ pc' = "network"
    /\ UNCHANGED <<adamVars, builder, captured, trace, network_calls, embeddings,
                   embedding_mean_norm, loss, eval_metric_ops, optimizer, UPDATE_OPS,
                   spec, ran>>

\* embeddings, end_points = network(scope_name, features, params, is_training)
TripletNetwork ==
    /\ builder = "triplet" /\ pc = "network"
    /\ network_calls' = Append(network_calls, NetworkArgs)
    /\ embeddings' = <<"embeddings">>
    /\ UPDATE_OPS' \in SUBSET UpdateOps
    /\ trace' = Append(trace, "network")
    /\ pc' = "mean_norm"
    /\ UNCHANGED <<adamVars, builder, captured, call, embedding_mean_norm, loss,
                   eval_metric_ops, optimizer, spec, ran>>

\* embedding_mean_norm = tf.reduce_mean(tf.norm(embeddings, axis=1)) and its summary
TripletMeanNorm ==
    /\ builder = "triplet" /\ pc = "mean_norm"
    /\ embedding_mean_norm' = embeddings
    /\ trace' = Append(trace, "summary:embedding_mean_norm")
    /\ pc' = "normalize"
    /\ UNCHANGED <<adamVars, builder, captured, call, network_calls, embeddings, loss,
                   eval_metric_ops, optimizer, UPDATE_OPS, spec, ran>>

\* if use_l2_normalize: embeddings = tf.nn.l2_normalize(embeddings, axis=0)
TripletNormalize ==
    /\ builder = "triplet" /\ pc = "normalize"
    /\ embeddings' = l2_normalize_if(embeddings)
    /\ trace' = IF embeddings' # embeddings THEN Append(trace, "l2_normalize") ELSE trace
    /\ pc' = "predict?"
    /\ UNCHANGED <<adamVars, builder, captured, call, network_calls, embedding_mean_norm,
                   loss, eval_metric_ops, optimizer, UPDATE_OPS, spec, ran>>

\* if mode == PREDICT: return EstimatorSpec(mode=mode, predictions=predictions)
TripletPredict ==
    /\ builder = "triplet" /\ pc = "predict?"
    /\ call.mode = PREDICT
    /\ spec' = Append(spec, PredictSpec(call.mode, TripletPredictions))
    /\ trace' = trace \o <<"predictions", "return">>
    /\ pc' = "returned"
    /\ UNCHANGED <<adamVars, builder, captured, call, network_calls, embeddings,
                   embedding_mean_norm, loss, eval_metric_ops, optimizer, UPDATE_OPS, ran>>

\* labels = tf.cast(labels, tf.int64); loss = batch_hard_triplet_loss(labels, embeddings, ...)
TripletLoss ==
    /\ builder = "triplet" /\ pc = "predict?"
    /\ call.mode # PREDICT
    /\ loss' = <<"batch_hard_triplet_loss", call.labels>> \o embeddings
    /\ trace' = trace \o <<"labels", "loss">>
    /\ pc' = "metrics"
    /\ UNCHANGED <<adamVars, builder, captured, call, network_calls, embeddings,
                   embedding_mean_norm, eval_metric_ops, optimizer, UPDATE_OPS, spec, ran>>

\* eval_metric_ops = {"embedding_mean_norm": tf.metrics.mean(embedding_mean_norm)}
TripletMetrics ==
    /\ builder = "triplet" /\ pc = "metrics"
    /\ eval_metric_ops' = [k \in {"embedding_mean_norm"} |-> embedding_mean_norm]
    /\ trace' = Append(trace, "metrics")
    /\ pc' = "eval?"
    /\ UNCHANGED <<adamVars, builder, captured, call, network_calls, embeddings,
                   embedding_mean_norm, loss, optimizer, UPDATE_OPS, spec, ran>>

\* if mode == EVAL: return EstimatorSpec(mode, loss=loss, eval_metric_ops=eval_metric_ops)
TripletEval ==
    /\ builder = "triplet" /\ pc = "eval?"
    /\ call.mode = EVAL
    /\ spec' = Append(spec, EvalSpec(call.mode, <<loss>>, eval_metric_ops))
    /\ trace' = Append(trace, "return")
    /\ pc' = "returned"
    /\ UNCHANGED <<adamVars, builder, captured, call, network_calls, embeddings,
                   embedding_mean_norm, loss, eval_metric_ops, optimizer, UPDATE_OPS, ran>>

\* tf.summary.scalar('loss', loss); the optimizer is constructed with
\* learning_rate=get_learning_rate_func()
TripletOptimizer ==
    /\ builder = "triplet" /\ pc = "eval?"
    /\ call.mode # EVAL
    /\ optimizer' = OptimizerFor(captured.optimizer_type)
    /\ trace' = trace \o <<"summary:loss", "get_learning_rate_func", optimizer'>>
    /\ pc' = "train_op"
    /\ UNCHANGED <<adamVars, builder, captured, call, network_calls, embeddings,
                   embedding_mean_norm, loss, eval_metric_ops, UPDATE_OPS, spec, ran>>

\* train_op = optimizer.minimize(...) under the UPDATE_OPS control dependencies;
\* return EstimatorSpec(mode, loss=loss, train_op=train_op)
TripletTrainOp ==
    /\ builder = "triplet" /\ pc = "train_op"
    /\ spec' = Append(spec, EstimatorSpec(call.mode, <<>>, <<loss>>, <<Minimize>>, <<>>))
    /\ trace' = trace \o <<"minimize", "return">>
    /\ pc' = "returned"
    /\ UNCHANGED <<adamVars, builder, captured, call, network_calls, embeddings,
                   embedding_mean_norm, loss, eval_metric_ops, optimizer, UPDATE_OPS, ran>>

\* logits, end_points = network(...); predicted_classes = tf.argmax(logits, 1)
SoftmaxNetwork ==
    /\ builder = "softmax" /\ pc = "network"
    /\ network_calls' = Append(network_calls, NetworkArgs)
    /\ UPDATE_OPS' \in SUBSET UpdateOps
    /\ trace' = Append(trace, "network")
    /\ pc' = "predict?"
    /\ UNCHANGED <<adamVars, builder, captured, call, embeddings, embedding_mean_norm, loss,
                   eval_metric_ops, optimizer, spec, ran>>

\* if mode == PREDICT: return EstimatorSpec(mode, predictions=predictions)
SoftmaxPredict ==
    /\ builder = "softmax" /\ pc = "predict?"
    /\ call.mode = PREDICT
    /\ spec' = Append(spec, PredictSpec(call.mode, SoftmaxPredictions))
    /\ trace' = trace \o <<"predictions", "return">>
    /\ pc' = "returned"
    /\ UNCHANGED <<adamVars, builder, captured, call, network_calls, embeddings,
                   embedding_mean_norm, loss, eval_metric_ops, optimizer, UPDATE_OPS, ran>>

\* loss = tf.losses.sparse_softmax_cross_entropy(labels=labels, logits=logits)
SoftmaxLoss ==
    /\ builder = "softmax" /\ pc = "predict?"
    /\ call.mode # PREDICT
    /\ loss' = <<"sparse_softmax_cross_entropy", call.labels, "logits">>
    /\ trace' = trace \o <<"labels", "loss">>
    /\ pc' = "train?"
    /\ UNCHANGED <<adamVars, builder, captured, call, network_calls, embeddings,
                   embedding_mean_norm, eval_metric_ops, optimizer, UPDATE_OPS, spec, ran>>

\* if mode == TRAIN: tf.summary.scalar('loss', loss); the optimizer is constructed
\* with learning_rate=get_learning_rate_func()
SoftmaxOptimizer ==
    /\ builder = "softmax" /\ pc = "train?"
    /\ call.mode = TRAIN
    /\ optimizer' = OptimizerFor(captured.optimizer_type)
    /\ trace' = trace \o <<"summary:loss", "get_learning_rate_func", optimizer'>>
    /\ pc' = "train_op"
    /\ UNCHANGED <<adamVars, builder, captured, call, network_calls, embeddings,
                   embedding_mean_norm, loss, eval_metric_ops, UPDATE_OPS, spec, ran>>

\* all_train_op = optimizer.minimize(...) under the UPDATE_OPS control dependencies;
\* return EstimatorSpec(mode, loss=loss, train_op=all_train_op, scaffold=None)
SoftmaxTrainOp ==
    /\ builder = "softmax" /\ pc = "train_op"
    /\ spec' = Append(spec, EstimatorSpec(call.mode, <<>>, <<loss>>, <<Minimize>>, <<>>))
    /\ trace' = trace \o <<"minimize", "return">>
    /\ pc' = "returned"
    /\ UNCHANGED <<adamVars, builder, captured, call, network_calls, embeddings,
                   embedding_mean_norm, loss, eval_metric_ops, optimizer, UPDATE_OPS, ran>>

\* eval_metric_ops = {'accuracy': tf.metrics.accuracy(labels, predicted_classes)};
\* return EstimatorSpec(mode, loss=loss, eval_metric_ops=eval_metric_ops)
SoftmaxEval ==
    /\ builder = "softmax" /\ pc = "train?"
    /\ call.mode # TRAIN
    /\ eval_metric_ops' = [k \in {"accuracy"} |-> <<"logits", "argmax">>]
    /\ spec' = Append(spec, EvalSpec(call.mode, <<loss>>, eval_metric_ops'))
    /\ trace' = trace \o <<"metrics", "return">>
    /\ pc' = "returned"
    /\ UNCHANGED <<adamVars, builder, captured, call, network_calls, embeddings,
                   embedding_mean_norm, loss, optimizer, UPDATE_OPS, ran>>

\* A training step runs the returned train_op: an op runs once the ops it has as
\* control inputs have run.
Training == pc = "returned" /\ call.mode = TRAIN /\ spec[1].train_op # <<>>

RunUpdateOp ==
    /\ Training
    /\ \E u \in spec[1].train_op[1].control_inputs \ Range(ran) : ran' = Append(ran, u)
    /\ UNCHANGED <<adamVars, builder, captured, call, pc, trace, network_calls, embeddings,
                   embedding_mean_norm, loss, eval_metric_ops, optimizer, UPDATE_OPS, spec>>

RunMinimize ==
    /\ Training
    /\ <<"minimize">> \notin Range(ran)
    /\ spec[1].train_op[1].control_inputs \subseteq Range(ran)
    /\ ran' = Append(ran, <<"minimize">>)
    /\ UNCHANGED <<adamVars, builder, captured, call, pc, trace, network_calls, embeddings,
                   embedding_mean_norm, loss, eval_metric_ops, optimizer, UPDATE_OPS, spec>>

RunGlobalStep ==
    /\ Training
    /\ <<"minimize">> \in Range(ran)
    /\ <<"global_step">> \notin Range(ran)
    /\ ran' = Append(ran, <<"global_step">>)
    /\ UNCHANGED <<adamVars, builder, captured, call, pc, trace, network_calls, embeddings,
                   embedding_mean_norm, loss, eval_metric_ops, optimizer, UPDATE_OPS, spec>>

FnNext ==
    \/ ModelFuncCall
    \/ TripletNetwork
    \/ TripletMeanNorm
    \/ TripletNormalize
    \/ TripletPredict
    \/ TripletLoss
    \/ TripletMetrics
    \/ TripletEval
    \/ TripletOptimizer
    \/ TripletTrainOp
    \/ SoftmaxNetwork
    \/ SoftmaxPredict
    \/ SoftmaxLoss
    \/ SoftmaxOptimizer
    \/ SoftmaxTrainOp
    \/ SoftmaxEval
    \/ RunUpdateOp
    \/ RunMinimize
    \/ RunGlobalStep

SpecModelFn == FnInit /\ [][FnNext]_vars

\* --------------------------------------------- properties of the model functions
Called == pc \notin {"idle", "created"}

Returned == pc = "returned"

RECURSIVE Count(_, _)
Count(seq, x) ==
    IF seq = <<>> THEN 0 ELSE (IF Head(seq) = x THEN 1 ELSE 0) + Count(Tail(seq), x)

Optimizers == {"GradientDescentOptimizer", "AdamOptimizer"}

OptimizersBuilt == Count(trace, "GradientDescentOptimizer") + Count(trace, "AdamOptimizer")

\* the position of the first x in seq, 0 if there is none
First(seq, x) ==
    IF x \in Range(seq) THEN CHOOSE k \in 1..Len(seq) : seq[k] = x /\ \A j \in 1..(k - 1) : seq[j] # x
    ELSE 0

\* C1: a PREDICT call of either model_func returns a spec with predictions only;
\* on that path labels are not read, no loss is built, no optimizer is constructed
\* and get_learning_rate_func is not called.  The triplet predictions have the keys
\* features_embedding_key and features_filename_key, the softmax predictions the
\* keys 'class', 'prob', 'filename' with filename = features[features_filename_key].
C1_PredictOnly ==
    (Called /\ call.mode = PREDICT) =>
        /\ Range(trace) \cap ({"labels", "loss", "metrics", "get_learning_rate_func",
                              "minimize"} \cup Optimizers) = {}
        /\ loss = <<>> /\ optimizer = "None"
        /\ Returned =>
              /\ Len(spec) = 1
              /\ Len(spec[1].predictions) = 1
              /\ spec[1].loss = <<>>
              /\ spec[1].train_op = <<>>
              /\ spec[1].eval_metric_ops = <<>>
              /\ builder = "triplet" =>
                    /\ DOMAIN spec[1].predictions[1] =
                          {captured.features_embedding_key, captured.features_filename_key}
                    /\ spec[1].predictions[1][captured.features_filename_key]
                          = <<call.features, captured.features_filename_key>>
              /\ builder = "softmax" =>
                    /\ DOMAIN spec[1].predictions[1] = {"class", "prob", "filename"}
                    /\ spec[1].predictions[1]["filename"]
                          = <<call.features, captured.features_filename_key>>

C1_Witness ==
    /\ Returned /\ call.mode = PREDICT /\ builder = "softmax"
    /\ captured.optimizer_type = "sgd"
    /\ Len(spec) = 1

\* C2: a TRAIN call returns a spec with loss and train_op and no eval_metric_ops,
\* an EVAL call one with loss and eval_metric_ops ('embedding_mean_norm' for the
\* triplet builder, 'accuracy' for the softmax builder) and no train_op; exactly
\* one spec is returned and its mode is the mode passed in.
C2_TrainEvalSpecs ==
    /\ Len(spec) <= 1
    /\ (Len(spec) = 1) = Returned
    /\ Returned =>
          /\ spec[1].mode = call.mode
          /\ call.mode = TRAIN =>
                /\ Len(spec[1].loss) = 1
                /\ Len(spec[1].train_op) = 1
                /\ spec[1].eval_metric_ops = <<>>
          /\ call.mode = EVAL =>
                /\ Len(spec[1].loss) = 1
                /\ spec[1].train_op = <<>>
                /\ Len(spec[1].eval_metric_ops) = 1
                /\ DOMAIN spec[1].eval_metric_ops[1] =
                      (IF builder = "triplet" THEN {"embedding_mean_norm"} ELSE {"accuracy"})

C2_Witness ==
    /\ Returned /\ call.mode = EVAL /\ builder = "triplet"
    /\ Len(spec) = 1 /\ Len(spec[1].eval_metric_ops) = 1

\* C3: a TRAIN call constructs exactly one optimizer and calls
\* get_learning_rate_func exactly once: gradient descent iff optimizer_type is
\* OptimizerType.sgd, Adam for every other optimizer_type; EVAL and PREDICT calls
\* construct no optimizer and do not call get_learning_rate_func.
C3_OptimizerChoice ==
    Called =>
        /\ OptimizersBuilt <= 1
        /\ Count(trace, "get_learning_rate_func") = OptimizersBuilt
        /\ (Returned /\ call.mode = TRAIN) =>
              /\ OptimizersBuilt = 1
              /\ (optimizer = "GradientDescentOptimizer") = (captured.optimizer_type = "sgd")
              /\ captured.optimizer_type # "sgd" => optimizer = "AdamOptimizer"
              /\ Count(trace, optimizer) = 1
              /\ spec[1].train_op[1].optimizer = optimizer
        /\ call.mode \in {EVAL, PREDICT} => (OptimizersBuilt = 0 /\ optimizer = "None")

C3_Witness ==
    /\ Returned /\ call.mode = TRAIN
    /\ captured.optimizer_type = "other"
    /\ optimizer = "AdamOptimizer"

\* C7: the network is invoked exactly once per model_func call, before anything
\* that depends on the mode, with is_training = True iff mode = TRAIN and with the
\* captured scope_name and the features and params of the call.
C7_NetworkCall ==
    Called =>
        /\ Len(network_calls) = (IF pc = "network" THEN 0 ELSE 1)
        /\ Count(trace, "network") = Len(network_calls)
        /\ trace # <<>> => trace[1] = "network"
        /\ Len(network_calls) = 1 =>
              network_calls[1] = [scope_name |-> captured.scope_name,
                                  features |-> call.features,
                                  params |-> call.params,
                                  is_training |-> (call.mode = TRAIN)]

C7_Witness ==
    /\ Returned /\ call.mode = "other"
    /\ Len(network_calls) = 1 /\ network_calls[1].is_training = FALSE

\* C8: in a TRAIN call the train_op has every op of the UPDATE_OPS collection as a
\* control input, so in a training step all of them have run before the minimize
\* step and before the global-step increment.
C8_UpdateOpsFirst ==
    (Returned /\ call.mode = TRAIN) =>
        /\ spec[1].train_op[1].control_inputs = UPDATE_OPS
        /\ \A k \in 1..Len(ran) :
              ran[k] \in {<<"minimize">>, <<"global_step">>} =>
                  UPDATE_OPS \subseteq {ran[j] : j \in 1..(k - 1)}
        /\ <<"global_step">> \in Range(ran) =>
              First(ran, <<"minimize">>) < First(ran, <<"global_step">>)

C8_Witness ==
    /\ Returned /\ call.mode = TRAIN
    /\ Cardinality(UPDATE_OPS) >= 2
    /\ <<"global_step">> \in Range(ran)

RawEmbeddings == <<"embeddings">>

UsedEmbeddings ==
    IF captured.use_l2_normalize THEN <<"embeddings", "l2_normalize">> ELSE RawEmbeddings

\* C9: in the triplet model_func embedding_mean_norm (summary and EVAL metric) is
\* computed from the raw embeddings before any normalization; L2 normalization is
\* applied iff use_l2_normalize, and the PREDICT predictions and the triplet loss
\* use the normalized embeddings then and the raw embeddings otherwise.
C9_EmbeddingNormalization ==
    (Called /\ builder = "triplet") =>
        /\ embedding_mean_norm \in {<<>>, RawEmbeddings}
        /\ ("l2_normalize" \in Range(trace)) =
              (captured.use_l2_normalize /\ pc \notin {"network", "mean_norm", "normalize"})
        /\ "l2_normalize" \in Range(trace) =>
              /\ First(trace, "summary:embedding_mean_norm") > 0
              /\ First(trace, "summary:embedding_mean_norm") < First(trace, "l2_normalize")
        /\ loss # <<>> => loss = <<"batch_hard_triplet_loss", call.labels>> \o UsedEmbeddings
        /\ (Returned /\ call.mode = PREDICT) =>
              spec[1].predictions[1][captured.features_embedding_key] = UsedEmbeddings
        /\ (Returned /\ call.mode = EVAL) =>
              /\ spec[1].eval_metric_ops[1]["embedding_mean_norm"] = RawEmbeddings
              /\ spec[1].loss[1] = <<"batch_hard_triplet_loss", call.labels>> \o UsedEmbeddings

C9_Witness ==
    /\ Returned /\ builder = "triplet" /\ call.mode = EVAL
    /\ captured.use_l2_normalize
    /\ spec[1].loss[1] # <<"batch_hard_triplet_loss", call.labels>> \o RawEmbeddings

====
